---------------------------- MODULE Spec2Model ----------------------------
(***************************************************************************)
(* Route-optimisation core of harrisonburg-explorer (backend/algorithms):  *)
(* the algorithm registry (factory.py), the nearest-neighbour solver       *)
(* (nearest_neighbor.py) and the genetic algorithm (genetic_algorithm.py). *)
(*                                                                         *)
(* Python lists are sequences; a Python index i (0-based) is position i+1. *)
(* Distances are naturals; a fitness 1/(d+1) is the pair <<1, d+1>>.       *)
(***************************************************************************)
EXTENDS Integers, Sequences, FiniteSets, TLC

(***************************************************************************)
(* Bounds of the model                                                     *)
(***************************************************************************)
\* largest number of places in a request
MaxPlaces == 3
\* calls started after the reference call are counted up to this number
MaxCallsCounted == 2
\* distances between two different places range over 1..MaxDist
MaxDist == 2
\* largest population_size, elite_size and generations of a GeneticAlgorithm
MaxPopulation == 2
MaxElite == 2
MaxGenerations == 2
\* places of the parents handed to _order_crossover on its own
MaxCities == 4

(***************************************************************************)
(* Python helpers                                                          *)
(***************************************************************************)
\* seq[i] for a Python index i, negative indices counting from the end
PyIdx(len, i) == IF i < 0 THEN len + i ELSE i

PyAt(s, i) == s[PyIdx(Len(s), i) + 1]

\* s[i] = v on a list
PySet(s, i, v) == [s EXCEPT ![PyIdx(Len(s), i) + 1] = v]

Range(s) == {s[k] : k \in 1..Len(s)}

\* identifiers of the places of a request, in request order
PlaceIds == <<"place_2", "place_3", "place_1", "place_4", "place_5">>

PlaceLists == {SubSeq(PlaceIds, 1, n) : n \in 0..MaxPlaces}

\* n-by-n matrices with a zero diagonal and symmetric distances in 1..MaxDist
Matrices(n) ==
    LET pairs == {pr \in (1..n) \X (1..n) : pr[1] < pr[2]}
    IN {[i \in 1..n |-> [j \in 1..n |->
            IF i = j THEN 0 ELSE IF i < j THEN upper[<<i, j>>] ELSE upper[<<j, i>>]]] :
        upper \in [pairs -> 1..MaxDist]}

\* n-by-n matrices with a zero diagonal and every leg of length 1, but for at
\* most one directed leg, from or to the first place, of length MaxDist
OneWayMatrices(n) ==
    {[i \in 1..n |-> [j \in 1..n |->
            IF i = j THEN 0 ELSE IF <<i, j>> = long THEN MaxDist ELSE 1]] :
        long \in {pr \in (1..n) \X (1..n) : pr[1] = 1 \/ pr[2] = 1}}

(***************************************************************************)
(* Constraints: None, or a dict given as its set of <<key, value>> items   *)
(***************************************************************************)
None == [none |-> TRUE, items |-> {}]

Dict(items) == [none |-> FALSE, items |-> items]

StartLocationItems == {{}} \cup {{<<"start_location", PlaceIds[k]>>} : k \in 1..MaxPlaces}

ReturnToStartItems == {{}, {<<"return_to_start", "True">>}, {<<"return_to_start", "False">>}}

ConstraintSet == {None} \cup {Dict(s \cup r) : s \in StartLocationItems, r \in ReturnToStartItems}

\* truth value of `constraints` in a condition: None and {} are false
Truthy(c) == ~c.none /\ c.items # {}

HasKey(c, key) == \E p \in c.items : p[1] = key

\* constraints.get(key, default)
DictGet(c, key, default) ==
    IF HasKey(c, key) THEN (CHOOSE p \in c.items : p[1] = key)[2] ELSE default

VARIABLES
    algorithms,      \* AlgorithmFactory._algorithms: list of [name, cls] in insertion order
    facResult,       \* outcome of the last factory call
    regLog,          \* history: the class last registered under each name ("" if none)
    places,          \* solve argument: the place identifiers, in order
    distance_matrix, \* solve argument
    constraints,     \* solve argument
    nnPc,            \* position in NearestNeighborAlgorithm.solve
    start_idx,       \* locals of NearestNeighborAlgorithm.solve
    visited,
    route_order,
    current,
    total_distance,
    nn_i,            \* iterations of the for loop done
    nnResult,        \* what the last nearest-neighbour call returned or raised
    refCall,         \* history: one earlier completed nearest-neighbour call
    population_size, \* fields of the GeneticAlgorithm instance
    generations,
    mutation_rate,   \* in hundredths: 2 stands for 0.02
    elite_size,
    gaPc,            \* position in GeneticAlgorithm.solve
    ga_start_idx,    \* locals of GeneticAlgorithm.solve
    return_to_start,
    population,
    fitness_scores,
    new_population,
    generation,
    gaResult,        \* what the last genetic call returned or raised
    drawn,           \* history: what a helper of the genetic algorithm, called alone, drew
    request,         \* arguments of the service call: places, algorithm_name, constraints
    svcPc,           \* position in the service call
    calls,           \* history: the collaborators the service call has invoked, in order
    validation,      \* the dict a validate_* method returned
    svc_matrix,      \* the matrix get_distance_matrix returned
    svcResult        \* what the service call returned or raised

factoryVars == <<algorithms, facResult, regLog>>
inputVars == <<places, distance_matrix, constraints>>
nnVars == <<nnPc, start_idx, visited, route_order, current, total_distance, nn_i, nnResult, refCall>>
gaFields == <<population_size, generations, mutation_rate, elite_size>>
gaLocals == <<ga_start_idx, return_to_start, population, fitness_scores, new_population, generation>>
gaVars == <<gaFields, gaPc, gaLocals, gaResult, drawn>>
svcVars == <<request, svcPc, calls, validation, svc_matrix, svcResult>>
vars == <<factoryVars, inputVars, nnVars, gaVars, svcVars>>

(***************************************************************************)
(* models/domain.py: Route; exceptions                                     *)
(***************************************************************************)
Route(order, dist, algo) ==
    [kind |-> "Route", places_order |-> order, total_distance |-> dist, algorithm_used |-> algo]

Raise(exc) ==
    [kind |-> exc, places_order |-> <<>>, total_distance |-> 0, algorithm_used |-> ""]

NoResult == Raise("none")

\* [places[i].id for i in route]
PlaceIdsOf(pl, route) == [k \in 1..Len(route) |-> PyAt(pl, route[k])]

(***************************************************************************)
(* algorithms/base.py                                                      *)
(***************************************************************************)
ValidateInput_Off(pl) == Len(pl) >= 1

ValidateInput(pl) == Len(pl) >= 2

(***************************************************************************)
(* algorithms/nearest_neighbor.py                                          *)
(***************************************************************************)
NNName == "nearest_neighbor"

\* float('inf'): no distance is below it (distances are never negative)
Infinity == -1

\* the comparison of line 47 written with <=
LessThan_OrEqual(d, min_distance) == min_distance = Infinity \/ d <= min_distance

\* distance_matrix[current][i] < min_distance, line 47
LessThan(d, min_distance) == min_distance = Infinity \/ d < min_distance

\* the scan of _find_nearest_unvisited from index i on
RECURSIVE FindNearestFrom(_, _, _, _, _, _)
FindNearestFrom(i, cur, matrix, vis, min_distance, nearest_idx) ==
    IF i >= Len(matrix) THEN nearest_idx
    ELSE IF ~PyAt(vis, i) /\ LessThan(PyAt(PyAt(matrix, cur), i), min_distance)
         THEN FindNearestFrom(i + 1, cur, matrix, vis, PyAt(PyAt(matrix, cur), i), i)
         ELSE FindNearestFrom(i + 1, cur, matrix, vis, min_distance, nearest_idx)

FindNearestUnvisited(cur, matrix, vis) == FindNearestFrom(0, cur, matrix, vis, Infinity, -1)

\* a visited list left over from the previous call
FreshVisited_Stale(n) == IF Len(visited) = n THEN visited ELSE [k \in 1..n |-> FALSE]

\* [False] * len(places)
FreshVisited(n) == [k \in 1..n |-> FALSE]

\* the condition of the closing leg, line 31
NNClosesLoop(c) == Truthy(c) /\ DictGet(c, "return_to_start", "True") = "True"

\* the leg back to the start, line 32, left out of the total
ClosingLeg_Dropped(matrix, cur, start) == 0

\* distance_matrix[current][start_idx], line 32
ClosingLeg(matrix, cur, start) == PyAt(PyAt(matrix, cur), start)

\* a caller invokes solve(places, distance_matrix, constraints)
NNCall ==
    /\ nnPc \in {"idle", "done"}
    /\ \E c \in ConstraintSet : constraints' = c
    /\ nnPc' = "start"
    /\ nnResult' = NoResult
    /\ refCall' = IF refCall.set /\ refCall.later < MaxCallsCounted
                  THEN [refCall EXCEPT !.later = @ + 1]
                  ELSE refCall
    /\ UNCHANGED <<svcVars, factoryVars, places, distance_matrix, start_idx, visited, route_order,
                   current, total_distance, nn_i, gaVars>>

\* a completed call may be kept as the reference of later calls
Remember(result) ==
    \E keep \in BOOLEAN :
        refCall' = IF keep /\ ~refCall.set
                   THEN [set |-> TRUE, constraints |-> constraints, result |-> result, later |-> 0]
                   ELSE refCall

\* lines 15-21
NNStart ==
    /\ nnPc = "start"
    /\ start_idx' = 0
    /\ route_order' = <<0>>
    /\ IF Len(places) = 0
       THEN \* visited[0] = True on an empty list
            /\ visited' = FreshVisited(0)
            /\ nnResult' = Raise("IndexError")
            /\ Remember(Raise("IndexError"))
            /\ nnPc' = "done"
            /\ UNCHANGED <<current, total_distance, nn_i>>
       ELSE /\ visited' = PySet(FreshVisited(Len(places)), 0, TRUE)
            /\ current' = 0
            /\ total_distance' = 0
            /\ nn_i' = 0
            /\ nnPc' = "loop"
            /\ UNCHANGED <<nnResult, refCall>>
    /\ UNCHANGED <<svcVars, factoryVars, inputVars, gaVars>>

\* lines 23-28, one iteration
NNLoopStep ==
    /\ nnPc = "loop"
    /\ nn_i < Len(places) - 1
    /\ LET nearest_idx == FindNearestUnvisited(current, distance_matrix, visited)
       IN /\ total_distance' = total_distance + PyAt(PyAt(distance_matrix, current), nearest_idx)
          /\ route_order' = Append(route_order, nearest_idx)
          /\ visited' = PySet(visited, nearest_idx, TRUE)
          /\ current' = nearest_idx
    /\ nn_i' = nn_i + 1
    /\ UNCHANGED <<svcVars, factoryVars, inputVars, nnPc, start_idx, nnResult, refCall, gaVars>>

\* lines 30-39 with constraints.pop('return_to_start', True) at line 31
NNReturn_PopsKey ==
    /\ nnPc = "loop"
    /\ nn_i >= Len(places) - 1
    /\ LET closes == NNClosesLoop(constraints)
           dist == IF closes
                   THEN total_distance + ClosingLeg(distance_matrix, current, start_idx)
                   ELSE total_distance
           order == IF closes THEN Append(route_order, start_idx) ELSE route_order
           result == Route(PlaceIdsOf(places, order), dist, NNName)
       IN /\ total_distance' = dist
          /\ route_order' = order
          /\ nnResult' = result
          /\ Remember(result)
    /\ constraints' = IF constraints.none THEN constraints
                      ELSE Dict({p \in constraints.items : p[1] # "return_to_start"})
    /\ nnPc' = "done"
    /\ UNCHANGED <<svcVars, factoryVars, places, distance_matrix, start_idx, visited, current, nn_i,
                   gaVars>>

\* lines 30-39
NNReturn ==
    /\ nnPc = "loop"
    /\ nn_i >= Len(places) - 1
    /\ LET closes == NNClosesLoop(constraints)
           dist == IF closes
                   THEN total_distance + ClosingLeg(distance_matrix, current, start_idx)
                   ELSE total_distance
           order == IF closes THEN Append(route_order, start_idx) ELSE route_order
           result == Route(PlaceIdsOf(places, order), dist, NNName)
       IN /\ total_distance' = dist
          /\ route_order' = order
          /\ nnResult' = result
          /\ Remember(result)
    /\ nnPc' = "done"
    /\ UNCHANGED <<svcVars, factoryVars, inputVars, start_idx, visited, current, nn_i, gaVars>>

(***************************************************************************)
(* algorithms/factory.py                                                   *)
(***************************************************************************)
\* the dict literal of lines 9-12
InitialAlgorithms ==
    << [name |-> "nearest_neighbor", cls |-> "NearestNeighborAlgorithm"],
       [name |-> "genetic", cls |-> "GeneticAlgorithm"] >>

\* names a caller may pass
AlgorithmNames == {"nearest_neighbor", "genetic", "two_opt", "invalid_algorithm"}

\* values a caller may pass as algorithm_class: the two solvers, their abstract
\* base, a class outside the hierarchy, and an object that is no class
ClassArgs == {"NearestNeighborAlgorithm", "GeneticAlgorithm", "TSPAlgorithm", "Place", "an_instance"}

IsClass(c) == c # "an_instance"

\* issubclass(c, TSPAlgorithm) for a class c
IsTSPAlgorithmSubclass(c) == c \in {"TSPAlgorithm", "NearestNeighborAlgorithm", "GeneticAlgorithm"}

\* TSPAlgorithm is an ABC with abstract methods: TSPAlgorithm() raises TypeError
IsAbstract(c) == c = "TSPAlgorithm"

\* list(d.keys())
DictKeys(d) == [k \in 1..Len(d) |-> d[k].name]

\* name in d
DictHas(d, name) == \E k \in 1..Len(d) : d[k].name = name

\* d[name]
DictLookup(d, name) == d[CHOOSE k \in 1..Len(d) : d[k].name = name].cls

\* d[name] = cls that keeps the class a name already has
DictStore_KeepFirst(d, name, cls) ==
    IF DictHas(d, name) THEN d ELSE Append(d, [name |-> name, cls |-> cls])

\* d[name] = cls: a known key keeps its position, a new key goes last
DictStore(d, name, cls) ==
    IF DictHas(d, name)
    THEN [k \in 1..Len(d) |-> IF d[k].name = name THEN [name |-> name, cls |-> cls] ELSE d[k]]
    ELSE Append(d, [name |-> name, cls |-> cls])

FactoryResult(op, name, arg, kind, names, cls) ==
    [op |-> op, name |-> name, arg |-> arg, kind |-> kind, names |-> names, cls |-> cls]

FactoryIdle == FactoryResult("none", "", "", "none", <<>>, "")

\* create_algorithm that answers an unknown name with the default solver
CreateOutcome_Fallback(d, name) ==
    IF ~DictHas(d, name)
    THEN FactoryResult("create", name, "", "instance", <<>>, "NearestNeighborAlgorithm")
    ELSE IF IsAbstract(DictLookup(d, name))
         THEN FactoryResult("create", name, "", "TypeError", <<>>, "")
         ELSE FactoryResult("create", name, "", "instance", <<>>, DictLookup(d, name))

\* what create_algorithm(name) returns or raises, lines 17-21
CreateOutcome(d, name) ==
    IF ~DictHas(d, name)
    THEN FactoryResult("create", name, "", "ValueError", DictKeys(d), "")
    ELSE IF IsAbstract(DictLookup(d, name))
         THEN FactoryResult("create", name, "", "TypeError", <<>>, "")
         ELSE FactoryResult("create", name, "", "instance", <<>>, DictLookup(d, name))

CreateAlgorithm ==
    /\ \E name \in AlgorithmNames : facResult' = CreateOutcome(algorithms, name)
    /\ UNCHANGED <<svcVars, algorithms, regLog, inputVars, nnVars, gaVars>>

GetAvailableAlgorithms ==
    /\ facResult' = FactoryResult("get_available", "", "", "list", DictKeys(algorithms), "")
    /\ UNCHANGED <<svcVars, algorithms, regLog, inputVars, nnVars, gaVars>>

RegisterAlgorithm ==
    /\ \E name \in AlgorithmNames : \E cls \in ClassArgs :
         IF ~IsClass(cls)
         THEN \* issubclass() arg 1 must be a class
              /\ facResult' = FactoryResult("register", name, cls, "TypeError", <<>>, "")
              /\ UNCHANGED <<algorithms, regLog>>
         ELSE IF ~IsTSPAlgorithmSubclass(cls)
         THEN /\ facResult' = FactoryResult("register", name, cls, "ValueError", <<>>, "")
              /\ UNCHANGED <<algorithms, regLog>>
         ELSE /\ algorithms' = DictStore(algorithms, name, cls)
              /\ facResult' = FactoryResult("register", name, cls, "None", <<>>, "")
              /\ regLog' = [regLog EXCEPT ![name] = cls]
    /\ UNCHANGED <<svcVars, inputVars, nnVars, gaVars>>

InitFactory ==
    /\ algorithms = InitialAlgorithms
    /\ facResult = FactoryIdle
    /\ regLog = [name \in AlgorithmNames |->
                    IF DictHas(InitialAlgorithms, name) THEN DictLookup(InitialAlgorithms, name) ELSE ""]

InitNNLocals ==
    /\ nnPc = "idle"
    /\ start_idx = 0
    /\ visited = <<>>
    /\ route_order = <<>>
    /\ current = 0
    /\ total_distance = 0
    /\ nn_i = 0
    /\ nnResult = NoResult
    /\ refCall = [set |-> FALSE, constraints |-> None, result |-> NoResult, later |-> 0]

(***************************************************************************)
(* algorithms/genetic_algorithm.py                                         *)
(***************************************************************************)
GAName == "genetic"

\* defaults of __init__
DefaultPopulationSize == 100
DefaultGenerations == 500
DefaultMutationRate == 2
DefaultEliteSize == 20

\* GeneticAlgorithm(), as the factory constructs it
InitGADefault ==
    /\ population_size = DefaultPopulationSize
    /\ generations = DefaultGenerations
    /\ mutation_rate = DefaultMutationRate
    /\ elite_size = DefaultEliteSize

\* no cut points and no tournament drawn
NoDraw == [cut |-> <<>>, tournament |-> <<>>]

InitGALocals ==
    /\ gaPc = "idle"
    /\ ga_start_idx = 0
    /\ return_to_start = TRUE
    /\ population = <<>>
    /\ fitness_scores = <<>>
    /\ new_population = <<>>
    /\ generation = 0
    /\ gaResult = NoResult
    /\ drawn = NoDraw

\* _calculate_route_distance
RECURSIVE LegsFrom(_, _, _)
LegsFrom(route, matrix, i) ==
    IF i >= Len(route) - 1 THEN 0
    ELSE PyAt(PyAt(matrix, PyAt(route, i)), PyAt(route, i + 1)) + LegsFrom(route, matrix, i + 1)

CalculateRouteDistance(route, matrix, rts) ==
    LegsFrom(route, matrix, 0)
    + (IF rts /\ Len(route) > 1 THEN PyAt(PyAt(matrix, PyAt(route, -1)), PyAt(route, 0)) ELSE 0)

\* _calculate_fitness passing the caller's return_to_start on
CalculateFitness_UsesFlag(route, matrix) ==
    <<1, CalculateRouteDistance(route, matrix, return_to_start) + 1>>

\* _calculate_fitness: 1 / (total_distance + 1) as numerator and denominator
CalculateFitness(route, matrix) == <<1, CalculateRouteDistance(route, matrix, TRUE) + 1>>

\* a > b on fitness values
FitnessGreater(a, b) == a[1] * b[2] > b[1] * a[2]

\* scores kept from the generation before and computed only where none is kept
FitnessList_Kept(pop, matrix) ==
    [k \in 1..Len(pop) |->
        IF k <= Len(fitness_scores) THEN fitness_scores[k] ELSE CalculateFitness(pop[k], matrix)]

\* lines 48-49 (81-82)
FitnessList(pop, matrix) == [k \in 1..Len(pop) |-> CalculateFitness(pop[k], matrix)]

\* max(indices, key=lambda i: scores[i]): the first of the largest
RECURSIVE MaxByScoreFrom(_, _, _, _)
MaxByScoreFrom(indices, scores, k, best) ==
    IF k > Len(indices) THEN best
    ELSE IF FitnessGreater(PyAt(scores, indices[k]), PyAt(scores, best))
         THEN MaxByScoreFrom(indices, scores, k + 1, indices[k])
         ELSE MaxByScoreFrom(indices, scores, k + 1, best)

\* max() returning the last of the largest
MaxByScore_Last(indices, scores) ==
    indices[CHOOSE k \in 1..Len(indices) :
        /\ \A j \in 1..Len(indices) :
               ~FitnessGreater(PyAt(scores, indices[j]), PyAt(scores, indices[k]))
        /\ \A j \in (k + 1)..Len(indices) :
               FitnessGreater(PyAt(scores, indices[k]), PyAt(scores, indices[j]))]

MaxByScore(indices, scores) == MaxByScoreFrom(indices, scores, 2, indices[1])

\* range(n) as a list
RangeList(n) == [k \in 1..n |-> k - 1]

\* sorted(range(len(scores)), key=..., reverse=False): ascending, stable
RECURSIVE SortedAscending(_, _)
SortedAscending(scores, left) ==
    IF left = {} THEN <<>>
    ELSE LET first == CHOOSE i \in left : \A j \in left \ {i} :
                          \/ FitnessGreater(PyAt(scores, j), PyAt(scores, i))
                          \/ (~FitnessGreater(PyAt(scores, i), PyAt(scores, j)) /\ i < j)
         IN <<first>> \o SortedAscending(scores, left \ {first})

\* the indices left as range() yields them, whatever the scores
SortedDescending_ByIndex(scores, left) == [k \in 1..Cardinality(left) |-> k - 1]

\* sorted(range(len(scores)), key=..., reverse=True): descending, equal scores
\* in their original order
RECURSIVE SortedDescending(_, _)
SortedDescending(scores, left) ==
    IF left = {} THEN <<>>
    ELSE LET first == CHOOSE i \in left : \A j \in left \ {i} :
                          \/ FitnessGreater(PyAt(scores, i), PyAt(scores, j))
                          \/ (~FitnessGreater(PyAt(scores, j), PyAt(scores, i)) /\ i < j)
         IN <<first>> \o SortedDescending(scores, left \ {first})

\* s[:k] for k >= 0
Prefix(s, k) == SubSeq(s, 1, IF k < Len(s) THEN k ELSE Len(s))

\* elite selection that ranks by ascending fitness
EliteIndices_Ascending(scores, k) == Prefix(SortedAscending(scores, 0..(Len(scores) - 1)), k)

\* lines 55-56
EliteIndices(scores, k) == Prefix(SortedDescending(scores, 0..(Len(scores) - 1)), k)

\* the lists random.sample(range(n), k) can return
Samples(n, k) ==
    {smp \in [1..k -> 0..(n - 1)] : \A a \in 1..k : \A b \in 1..k : a # b => smp[a] # smp[b]}

\* the orders random.shuffle can leave a list of the cities in
Shuffles(cities) == {PlaceIdsOf(cities, smp) : smp \in Samples(Len(cities), Len(cities))}

\* [city for city in route if city != start]
RECURSIVE Without(_, _)
Without(route, start) ==
    IF route = <<>> THEN <<>>
    ELSE IF route[1] = start THEN Without(Tail(route), start)
         ELSE <<route[1]>> \o Without(Tail(route), start)

\* the routes one pass of the loop of _create_initial_population can build
InitialRoutes(n, start) == {<<start>> \o r : r \in Shuffles(Without(RangeList(n), start))}

\* the first individual drawn wins
TournamentWinner_First(pop, scores, smp) == PyAt(pop, smp[1])

\* _tournament_selection, for the sample drawn
TournamentWinner(pop, scores, smp) == PyAt(pop, MaxByScore(smp, scores))

\* the default of the parameter of _tournament_selection, which solve leaves alone
tournament_size == 3

TournamentSamples(pop) ==
    Samples(Len(pop), IF tournament_size < Len(pop) THEN tournament_size ELSE Len(pop))

\* the parents _tournament_selection can return
TournamentWinners(pop, scores) ==
    {TournamentWinner(pop, scores, smp) : smp \in TournamentSamples(pop)}

\* an empty slot of a child
NoCity == -1

\* the while loop of line 180 never entered
SkipPresent_Never(child, parent, parent_idx) == parent_idx

\* _fill_remaining_positions from position i on; err: parent was read past its end
RECURSIVE SkipPresent(_, _, _)
SkipPresent(child, parent, parent_idx) ==
    IF parent_idx >= Len(parent) THEN parent_idx
    ELSE IF PyAt(parent, parent_idx) \in Range(child)
         THEN SkipPresent(child, parent, parent_idx + 1)
         ELSE parent_idx

RECURSIVE FillFrom(_, _, _, _)
FillFrom(child, parent, i, parent_idx) ==
    IF i >= Len(child) THEN [child |-> child, err |-> FALSE]
    ELSE IF PyAt(child, i) # NoCity THEN FillFrom(child, parent, i + 1, parent_idx)
    ELSE LET at == SkipPresent(child, parent, parent_idx)
         IN IF at >= Len(parent) THEN [child |-> child, err |-> TRUE]
            ELSE FillFrom(PySet(child, i, PyAt(parent, at)), parent, i + 1, at + 1)

\* every empty slot filled with the parent's city at the same position
FillRemainingPositions_SamePosition(child, parent) ==
    [child |-> [k \in 1..Len(child) |-> IF child[k] # NoCity THEN child[k] ELSE parent[k]],
     err |-> FALSE]

FillRemainingPositions(child, parent) == FillFrom(child, parent, 0, 0)

\* [None] * len(cities) with cities[start:end] copied in
WithSegment(cities, start, end) ==
    [k \in 1..Len(cities) |-> IF start < k /\ k <= end THEN cities[k] ELSE NoCity]

\* the pairs sorted(random.sample(range(m), 2)) can return
CutPoints(m) == {cut \in (0..(m - 1)) \X (0..(m - 1)) : cut[1] < cut[2]}

\* cut points drawn however few the cities
CutNeeded_Always(p1_cities) == TRUE

\* line 153 not taken: there are cities enough to cut
CutNeeded(p1_cities) == ~(Len(p1_cities) < 2)

\* _order_crossover for the cut points drawn (unused with fewer than 2 cities)
OrderCrossover(parent1, parent2, start, cut) ==
    LET p1_cities == Without(parent1, start)
        p2_cities == Without(parent2, start)
    IN IF ~CutNeeded(p1_cities)
       THEN [child1 |-> parent1, child2 |-> parent2, err |-> FALSE]
       ELSE LET f1 == FillRemainingPositions(WithSegment(p1_cities, cut[1], cut[2]), p2_cities)
                f2 == FillRemainingPositions(WithSegment(p2_cities, cut[1], cut[2]), p1_cities)
            IN [child1 |-> <<start>> \o f1.child, child2 |-> <<start>> \o f2.child,
                err |-> f1.err \/ f2.err]

\* the cut points drawn for parents with m non-start cities: none below 2
CutChoices(m) == IF m < 2 THEN {<<0, 0>>} ELSE CutPoints(m)

\* _mutate swapping the drawn positions of the route itself, start included
Mutate_WholeRoute(route, start, smp) ==
    [k \in 1..Len(route) |->
        IF k = smp[1] + 1 THEN PyAt(route, smp[2])
        ELSE IF k = smp[2] + 1 THEN PyAt(route, smp[1])
        ELSE route[k]]

\* _mutate for the positions drawn (unused with fewer than 2 cities)
Mutate(route, start, smp) ==
    LET cities == Without(route, start)
    IN IF Len(cities) >= 2
       THEN <<start>> \o [k \in 1..Len(cities) |->
                            IF k = smp[1] + 1 THEN PyAt(cities, smp[2])
                            ELSE IF k = smp[2] + 1 THEN PyAt(cities, smp[1])
                            ELSE cities[k]]
       ELSE <<start>> \o cities

\* _mutate drawing its two positions independently of each other
Mutations_WithRepeats(route, start) ==
    LET m == Len(Without(route, start))
    IN {Mutate(route, start, smp) : smp \in [1..2 -> 0..(m - 1)]}

\* the routes _mutate can return
Mutations(route, start) ==
    LET m == Len(Without(route, start))
    IN IF m >= 2 THEN {Mutate(route, start, smp) : smp \in Samples(m, 2)}
       ELSE {Mutate(route, start, <<0, 0>>)}

\* values of random.random(), in hundredths
RandomDraws == {0, 50}

\* the values a child can have after lines 70-71 (72-73)
MaybeMutated(child, start) ==
    UNION {IF draw < mutation_rate THEN Mutations(child, start) ELSE {child} :
           draw \in RandomDraws}

\* _order_crossover(parent1, parent2, start_idx) called on the two parents
\* held in population; the children are left in new_population
GACrossover ==
    /\ gaPc = "crossover"
    /\ \E cut \in CutChoices(Len(Without(population[1], ga_start_idx))) :
         LET cross == OrderCrossover(population[1], population[2], ga_start_idx, cut)
         IN IF cross.err
            THEN /\ gaResult' = Raise("IndexError")
                 /\ UNCHANGED new_population
            ELSE /\ new_population' = <<cross.child1, cross.child2>>
                 /\ UNCHANGED gaResult
         /\ drawn' = [drawn EXCEPT !.cut =
                         IF CutNeeded(Without(population[1], ga_start_idx)) THEN cut ELSE <<>>]
    /\ gaPc' = "crossed"
    /\ UNCHANGED <<svcVars, factoryVars, inputVars, nnVars, gaFields, ga_start_idx, return_to_start,
                   population, fitness_scores, generation>>

\* _mutate(route, start_idx) called on the route held in population; the
\* route returned is left in new_population
GAMutate ==
    /\ gaPc = "mutate"
    /\ new_population' \in {<<route>> : route \in Mutations(population[1], ga_start_idx)}
    /\ gaPc' = "mutated"
    /\ UNCHANGED <<svcVars, factoryVars, inputVars, nnVars, gaFields, drawn, ga_start_idx,
                   return_to_start, population, fitness_scores, generation, gaResult>>

\* _tournament_selection(population, fitness_scores) called on its own; the
\* individual returned is left in new_population
GATournament ==
    /\ gaPc = "select"
    /\ \E smp \in TournamentSamples(population) :
         /\ new_population' = <<TournamentWinner(population, fitness_scores, smp)>>
         /\ drawn' = [drawn EXCEPT !.tournament = smp]
    /\ gaPc' = "selected"
    /\ UNCHANGED <<svcVars, factoryVars, inputVars, nnVars, gaFields, ga_start_idx,
                   return_to_start, population, fitness_scores, generation, gaResult>>

\* lines 35-36
GAValidate ==
    /\ gaPc = "start"
    /\ IF ~ValidateInput(places)
       THEN /\ gaResult' = Raise("ValueError")
            /\ gaPc' = "done"
       ELSE /\ gaPc' = "resolve"
            /\ UNCHANGED gaResult
    /\ UNCHANGED <<svcVars, factoryVars, inputVars, nnVars, gaFields, drawn, gaLocals>>

\* line 39: the class and its base define no _get_start_index (nor the
\* _should_return_to_start of line 40), so the attribute lookup raises
GAResolveStart ==
    /\ gaPc = "resolve"
    /\ gaResult' = Raise("AttributeError")
    /\ gaPc' = "done"
    /\ UNCHANGED <<svcVars, factoryVars, inputVars, nnVars, gaFields, drawn, gaLocals>>

\* line 43
GACreatePopulation ==
    /\ gaPc = "populate"
    /\ population' \in [1..population_size -> InitialRoutes(Len(places), ga_start_idx)]
    /\ gaPc' = "generation"
    /\ UNCHANGED <<svcVars, factoryVars, inputVars, nnVars, gaFields, drawn, ga_start_idx, return_to_start,
                   fitness_scores, new_population, generation, gaResult>>

\* lines 46-52
GAFitnessPass ==
    /\ gaPc = "generation"
    /\ generation < generations
    /\ fitness_scores' = FitnessList(population, distance_matrix)
    /\ new_population' = <<>>
    /\ gaPc' = "elite"
    /\ UNCHANGED <<svcVars, factoryVars, inputVars, nnVars, gaFields, drawn, ga_start_idx, return_to_start,
                   population, generation, gaResult>>

\* lines 55-58
GAKeepElite ==
    /\ gaPc = "elite"
    /\ LET elite_indices == EliteIndices(fitness_scores, elite_size)
       IN new_population' = [k \in 1..Len(elite_indices) |-> PyAt(population, elite_indices[k])]
    /\ gaPc' = "offspring"
    /\ UNCHANGED <<svcVars, factoryVars, inputVars, nnVars, gaFields, drawn, ga_start_idx, return_to_start,
                   population, fitness_scores, generation, gaResult>>

\* lines 61-75, one iteration of the while loop
GAOffspring ==
    /\ gaPc = "offspring"
    /\ Len(new_population) < population_size
    /\ \E parent1 \in TournamentWinners(population, fitness_scores) :
       \E parent2 \in TournamentWinners(population, fitness_scores) :
       \E cut \in CutChoices(Len(Without(parent1, ga_start_idx))) :
         LET cross == OrderCrossover(parent1, parent2, ga_start_idx, cut)
         IN IF cross.err
            THEN /\ gaResult' = Raise("IndexError")
                 /\ gaPc' = "done"
                 /\ UNCHANGED new_population
            ELSE \E child1 \in MaybeMutated(cross.child1, ga_start_idx) :
                 \E child2 \in MaybeMutated(cross.child2, ga_start_idx) :
                   /\ new_population' = new_population \o <<child1, child2>>
                   /\ UNCHANGED <<gaPc, gaResult>>
    /\ UNCHANGED <<svcVars, factoryVars, inputVars, nnVars, gaFields, drawn, ga_start_idx, return_to_start,
                   population, fitness_scores, generation>>

\* line 78 with the surplus offspring kept
Trimmed_Nothing(pop, size) == pop

\* new_population[:self.population_size]
Trimmed(pop, size) == Prefix(pop, size)

\* line 78, and the end of one pass of the generation loop
GATrim ==
    /\ gaPc = "offspring"
    /\ Len(new_population) >= population_size
    /\ population' = Trimmed(new_population, population_size)
    /\ generation' = generation + 1
    /\ gaPc' = "generation"
    /\ UNCHANGED <<svcVars, factoryVars, inputVars, nnVars, gaFields, drawn, ga_start_idx, return_to_start,
                   fitness_scores, new_population, gaResult>>

\* lines 80-100
GAFinish ==
    /\ gaPc = "generation"
    /\ generation >= generations
    /\ IF population = <<>>
       THEN \* max() of an empty range
            /\ gaResult' = Raise("ValueError")
            /\ UNCHANGED population
       ELSE LET final_fitness == FitnessList(population, distance_matrix)
                best_idx == MaxByScore(RangeList(Len(final_fitness)), final_fitness)
                best_route == PyAt(population, best_idx)
                dist == CalculateRouteDistance(best_route, distance_matrix, return_to_start)
                closed == IF return_to_start /\ PyAt(best_route, -1) # ga_start_idx
                          THEN Append(best_route, ga_start_idx)
                          ELSE best_route
            IN \* best_route is population[best_idx] itself: append changes both
               /\ population' = PySet(population, best_idx, closed)
               /\ gaResult' = Route(PlaceIdsOf(places, closed), dist, GAName)
    /\ gaPc' = "done"
    /\ UNCHANGED <<svcVars, factoryVars, inputVars, nnVars, gaFields, drawn, ga_start_idx, return_to_start,
                   fitness_scores, new_population, generation>>

(***************************************************************************)
(* models/domain.py: Place; the arguments of a service call                *)
(***************************************************************************)
\* coordinates are whole degrees
Place(id, name, latitude, longitude) ==
    [id |-> id, name |-> name, latitude |-> latitude, longitude |-> longitude]

\* a list of places: the places listed one by one, followed by `more` further
\* places that are well-formed and whose identifiers occur nowhere else
PlaceList(listed, more) == [listed |-> listed, more |-> more]

\* len(places)
LenPlaces(pl) == Len(pl.listed) + pl.more

Request(pl, algorithm_name, c) == [places |-> pl, algorithm_name |-> algorithm_name, constraints |-> c]

NoValidation == [valid |-> FALSE, errors |-> <<>>, returned |-> FALSE]

\* models/domain.py: OptimizationResult and its Route, or what was raised
ServiceResult(kind, route, segments, total_time, improvement) ==
    [kind |-> kind, route |-> route, segments |-> segments, total_time |-> total_time,
     improvement_percentage |-> improvement, iterations |-> 1]

\* Optional[float]: None, or a fraction
NoFloat == [none |-> TRUE, num |-> 0, den |-> 1]

ServiceRaise(exc) == ServiceResult(exc, NoResult, <<>>, 0, NoFloat)

NoServiceResult == ServiceRaise("none")

InitService ==
    /\ request = Request(PlaceList(<<>>, 0), "", None)
    /\ svcPc = "idle"
    /\ calls = <<>>
    /\ validation = NoValidation
    /\ svc_matrix = <<>>
    /\ svcResult = NoServiceResult

(***************************************************************************)
(* services/validation_service.py                                          *)
(***************************************************************************)
min_places == 2

max_places == 100

\* strings made of whitespace only
WhitespaceStrings == {" ", "  "}

\* str.strip()
Strip(s) == IF s \in WhitespaceStrings THEN "" ELSE s

\* not s or not s.strip()
Blank(s) == s = "" \/ Strip(s) = ""

\* lo <= v <= hi with the bounds left out
Between_Strict(lo, v, hi) == lo < v /\ v < hi

\* lo <= v <= hi
Between(lo, v, hi) == lo <= v /\ v <= hi

\* _validate_place: the errors of one place, each with the index it names
ValidatePlace(place, index) ==
    (IF Blank(place.id) THEN <<<<"ID is required", index>>>> ELSE <<>>)
    \o (IF Blank(place.name) THEN <<<<"Name is required", index>>>> ELSE <<>>)
    \o (IF ~Between(-90, place.latitude, 90) THEN <<<<"Invalid latitude", index>>>> ELSE <<>>)
    \o (IF ~Between(-180, place.longitude, 180) THEN <<<<"Invalid longitude", index>>>> ELSE <<>>)

\* the loop of lines 33-35 from index i on
RECURSIVE PlaceErrorsFrom(_, _)
PlaceErrorsFrom(listed, i) ==
    IF i >= Len(listed) THEN <<>>
    ELSE ValidatePlace(PyAt(listed, i), i) \o PlaceErrorsFrom(listed, i + 1)

\* len(set(place_ids))
DistinctIds(pl) == Cardinality({pl.listed[k].id : k \in 1..Len(pl.listed)}) + pl.more

ValidatePlaces(pl) ==
    LET errors ==
            (IF LenPlaces(pl) < min_places THEN <<<<"Minimum places required", LenPlaces(pl)>>>> ELSE <<>>)
            \o (IF LenPlaces(pl) > max_places THEN <<<<"Maximum places allowed", LenPlaces(pl)>>>> ELSE <<>>)
            \o (IF LenPlaces(pl) # DistinctIds(pl) THEN <<<<"Duplicate place IDs found", 0>>>> ELSE <<>>)
            \o PlaceErrorsFrom(pl.listed, 0)
    IN [valid |-> Len(errors) = 0, errors |-> errors, returned |-> TRUE]

\* validate_algorithm: its dict has no errors list
ValidateAlgorithm(d, algorithm_name) ==
    [valid |-> \E k \in 1..Len(DictKeys(d)) : DictKeys(d)[k] = algorithm_name,
     errors |-> <<>>, returned |-> TRUE]

\* values a max_distance can have: numbers, a string, float('nan')
MaxDistanceValues == {"10", "0", "-5", "far", "nan"}

\* isinstance(max_dist, (int, float))
IsIntOrFloat(v) == v \in {"10", "0", "-5", "nan"}

\* max_dist <= 0: every comparison with nan is false
LessOrEqualZero(v) == v \in {"0", "-5"}

\* any(place.id == id for place in places)
AnyPlaceHasId(pl, id) == \E k \in 1..Len(pl.listed) : pl.listed[k].id = id

\* not isinstance(max_dist, (int, float)) or max_dist <= 0
BadMaxDistance(v) == ~IsIntOrFloat(v) \/ LessOrEqualZero(v)

ValidateConstraints(c, pl) ==
    IF ~Truthy(c) THEN [valid |-> TRUE, errors |-> <<>>, returned |-> TRUE]
    ELSE LET errors ==
                 (IF HasKey(c, "start_location") /\ ~AnyPlaceHasId(pl, DictGet(c, "start_location", ""))
                  THEN <<<<"Start location not found in places", 0>>>> ELSE <<>>)
                 \o (IF HasKey(c, "end_location") /\ ~AnyPlaceHasId(pl, DictGet(c, "end_location", ""))
                     THEN <<<<"End location not found in places", 0>>>> ELSE <<>>)
                 \o (IF HasKey(c, "max_distance") /\ BadMaxDistance(DictGet(c, "max_distance", ""))
                     THEN <<<<"max_distance must be a positive number", 0>>>> ELSE <<>>)
         IN [valid |-> Len(errors) = 0, errors |-> errors, returned |-> TRUE]

(***************************************************************************)
(* services/distance_service.py.  Coordinates are whole multiples of 90    *)
(* degrees, where the sines and cosines of the formula are 0, 1 or -1 and   *)
(* sin(x)**2 of a multiple of 45 degrees is 0, 1/2 or 1; a distance is      *)
(* counted in quarters of a great circle (pi/2 * 6371 km).                  *)
(***************************************************************************)
\* 2 * sin(d/2)**2 for d a multiple of 90 degrees
TwiceSinSquaredOfHalf(d) == <<0, 1, 2, 1>>[(((d \div 90) + 8) % 4) + 1]

\* cos(x) for x a multiple of 90 degrees
Cos(x) == <<1, 0, -1, 0>>[(((x \div 90) + 8) % 4) + 1]

\* sin(x) for x a multiple of 90 degrees
Sin(x) == <<0, 1, 0, -1>>[(((x \div 90) + 8) % 4) + 1]

\* 2 * a, line 47
TwiceA(lat1, lon1, lat2, lon2) ==
    LET dlat == lat2 - lat1
        dlon == lon2 - lon1
    IN TwiceSinSquaredOfHalf(dlat) + Cos(lat1) * Cos(lat2) * TwiceSinSquaredOfHalf(dlon)

\* math.asin(math.sqrt(a)) is defined for 0 <= a <= 1 only
InDomain(twice_a) == twice_a \in 0..2

\* c * r of lines 48-53 in quarters of a great circle: 2 * asin(sqrt(a)) is
\* 0, pi/2, pi for a = 0, 1/2, 1
HaversineDistance(lat1, lon1, lat2, lon2) == <<0, 1, 2>>[TwiceA(lat1, lon1, lat2, lon2) + 1]

\* the loops of lines 26-32 filling the entries right of the diagonal only
DistanceMatrixOf_UpperOnly(listed) ==
    [i \in 1..Len(listed) |-> [j \in 1..Len(listed) |->
        IF i < j
        THEN HaversineDistance(listed[i].latitude, listed[i].longitude,
                               listed[j].latitude, listed[j].longitude)
        ELSE 0]]

\* lines 18-19 and 26-32
DistanceMatrixOf(listed) ==
    [i \in 1..Len(listed) |-> [j \in 1..Len(listed) |->
        IF i # j
        THEN HaversineDistance(listed[i].latitude, listed[i].longitude,
                               listed[j].latitude, listed[j].longitude)
        ELSE 0]]

\* some pair of different places takes asin(sqrt(a)) out of its domain
DomainError(listed) ==
    \E i \in 1..Len(listed) : \E j \in 1..Len(listed) :
        i # j /\ ~InDomain(TwiceA(listed[i].latitude, listed[i].longitude,
                                  listed[j].latitude, listed[j].longitude))

\* the field DistanceService() sets at line 10
use_google_maps == FALSE

\* a caller invokes get_distance_matrix(places) on DistanceService()
CallGetDistanceMatrix ==
    /\ svcPc = "get_distance_matrix"
    /\ calls' = Append(calls, "get_distance_matrix")
    /\ IF use_google_maps
       THEN /\ svcResult' = ServiceRaise("NotImplementedError")
            /\ UNCHANGED svc_matrix
       ELSE IF DomainError(request.places.listed)
       THEN /\ svcResult' = ServiceRaise("ValueError")
            /\ UNCHANGED svc_matrix
       ELSE /\ svc_matrix' = DistanceMatrixOf(request.places.listed)
            /\ svcResult' = ServiceRaise("matrix")
    /\ svcPc' = "returned"
    /\ UNCHANGED <<request, validation, factoryVars, inputVars, nnVars, gaVars>>

\* a caller invokes validate_places(places)
CallValidatePlaces ==
    /\ svcPc = "validate_places"
    /\ validation' = ValidatePlaces(request.places)
    /\ calls' = Append(calls, "validate_places")
    /\ svcPc' = "returned"
    /\ UNCHANGED <<request, svc_matrix, svcResult, factoryVars, inputVars, nnVars, gaVars>>

\* a caller invokes validate_constraints(constraints, places)
CallValidateConstraints ==
    /\ svcPc = "validate_constraints"
    /\ validation' = ValidateConstraints(request.constraints, request.places)
    /\ calls' = Append(calls, "validate_constraints")
    /\ svcPc' = "returned"
    /\ UNCHANGED <<request, svc_matrix, svcResult, factoryVars, inputVars, nnVars, gaVars>>

(***************************************************************************)
(* services/route_service.py                                               *)
(***************************************************************************)
\* a validation result that is ignored
RaisesOnInvalid_Never(v) == FALSE

\* if not ..._validation['valid']: raise ValueError
RaisesOnInvalid(v) == ~v.valid

\* _validate_inputs, lines 64-81, called at line 35
RSValidateInputs ==
    /\ svcPc = "validate_inputs"
    /\ LET place_validation == ValidatePlaces(request.places)
           algorithm_validation == ValidateAlgorithm(algorithms, request.algorithm_name)
           constraint_validation == ValidateConstraints(request.constraints, request.places)
       IN IF RaisesOnInvalid(place_validation)
          THEN /\ calls' = calls \o <<"validate_places">>
               /\ validation' = place_validation
               /\ svcResult' = ServiceRaise("ValueError")
               /\ svcPc' = "done"
          ELSE IF RaisesOnInvalid(algorithm_validation)
          THEN /\ calls' = calls \o <<"validate_places", "validate_algorithm">>
               /\ validation' = algorithm_validation
               /\ svcResult' = ServiceRaise("ValueError")
               /\ svcPc' = "done"
          ELSE IF RaisesOnInvalid(constraint_validation)
          THEN /\ calls' = calls \o <<"validate_places", "validate_algorithm", "validate_constraints">>
               /\ validation' = constraint_validation
               /\ svcResult' = ServiceRaise("ValueError")
               /\ svcPc' = "done"
          ELSE /\ calls' = calls \o <<"validate_places", "validate_algorithm", "validate_constraints">>
               /\ validation' = constraint_validation
               /\ svcPc' = "matrix"
               /\ UNCHANGED svcResult
    /\ UNCHANGED <<request, svc_matrix, factoryVars, inputVars, nnVars, gaVars>>

\* line 41
RSGetDistanceMatrix ==
    /\ svcPc = "matrix"
    /\ calls' = Append(calls, "get_distance_matrix")
    /\ IF use_google_maps
       THEN /\ svcResult' = ServiceRaise("NotImplementedError")
            /\ svcPc' = "done"
            /\ UNCHANGED svc_matrix
       ELSE IF DomainError(request.places.listed)
       THEN /\ svcResult' = ServiceRaise("ValueError")
            /\ svcPc' = "done"
            /\ UNCHANGED svc_matrix
       ELSE /\ svc_matrix' = DistanceMatrixOf(request.places.listed)
            /\ svcPc' = "create"
            /\ UNCHANGED svcResult
    /\ UNCHANGED <<request, validation, factoryVars, inputVars, nnVars, gaVars>>

\* line 44
RSCreateAlgorithm ==
    /\ svcPc = "create"
    /\ calls' = Append(calls, "create_algorithm")
    /\ facResult' = CreateOutcome(algorithms, request.algorithm_name)
    /\ IF CreateOutcome(algorithms, request.algorithm_name).kind # "instance"
       THEN /\ svcResult' = ServiceRaise(CreateOutcome(algorithms, request.algorithm_name).kind)
            /\ svcPc' = "done"
       ELSE /\ svcPc' = "solve"
            /\ UNCHANGED svcResult
    /\ UNCHANGED <<request, validation, svc_matrix, algorithms, regLog, inputVars, nnVars, gaVars>>

\* line 47: algorithm.solve(places, distance_matrix, constraints) is entered
RSSolve ==
    /\ svcPc = "solve"
    /\ calls' = Append(calls, "solve")
    /\ places' = [k \in 1..Len(request.places.listed) |-> request.places.listed[k].id]
    /\ distance_matrix' = svc_matrix
    /\ constraints' = request.constraints
    /\ IF facResult.cls = "NearestNeighborAlgorithm"
       THEN /\ nnPc' = "start"
            /\ UNCHANGED gaPc
       ELSE /\ gaPc' = "start"
            /\ UNCHANGED nnPc
    /\ svcPc' = "solving"
    /\ UNCHANGED <<request, validation, svc_matrix, svcResult, factoryVars, start_idx, visited,
                   route_order, current, total_distance, nn_i, nnResult, refCall, gaFields, drawn,
                   gaLocals, gaResult>>

\* next(j for j, p in enumerate(places) if p.id == id)
FirstIndexOfId(listed, id) ==
    (CHOOSE j \in 1..Len(listed) :
        listed[j].id = id /\ \A k \in 1..(j - 1) : listed[k].id # id) - 1

\* lines 94-111: the segments; a duration distance / 50 * 60 is kept in fifths
RouteSegments(order, listed, matrix) ==
    [i \in 1..(Len(order) - 1) |->
        LET distance == PyAt(PyAt(matrix, FirstIndexOfId(listed, order[i])),
                             FirstIndexOfId(listed, order[i + 1]))
        IN [from_place_id |-> order[i], to_place_id |-> order[i + 1],
            distance |-> distance, duration |-> distance * 6]]

RECURSIVE SumOf(_)
SumOf(s) == IF s = <<>> THEN 0 ELSE s[1] + SumOf(Tail(s))

\* _calculate_improvement, lines 124-139, as the fraction num / den
CalculateImprovement(matrix, order, route_total) ==
    IF Len(order) < 3 THEN NoFloat
    ELSE LET n == Len(matrix)
             total_distances == SumOf([k \in 1..n |-> SumOf(matrix[k])])
             improvement == 100 * (total_distances * (n - 1) - route_total * n * n)
         IN IF total_distances * (n - 1) > 0
            THEN [none |-> FALSE, num |-> IF improvement < 0 THEN 0 ELSE improvement,
                  den |-> total_distances * (n - 1)]
            ELSE NoFloat

\* lines 47-62: solve has returned or raised
RSEnhanceAndReturn ==
    /\ svcPc = "solving"
    /\ nnPc = "done" \/ gaPc = "done"
    /\ LET route == IF nnPc = "done" THEN nnResult ELSE gaResult
       IN IF route.kind # "Route"
          THEN svcResult' = ServiceRaise(route.kind)
          ELSE LET segments == RouteSegments(route.places_order, request.places.listed, svc_matrix)
               IN svcResult' = ServiceResult("OptimizationResult", route, segments,
                                   SumOf([k \in 1..Len(segments) |-> segments[k].duration]),
                                   CalculateImprovement(svc_matrix, route.places_order,
                                                        route.total_distance))
    /\ svcPc' = "done"
    /\ UNCHANGED <<request, calls, validation, svc_matrix, factoryVars, inputVars, nnVars, gaVars>>

(***************************************************************************)
(* The nearest-neighbour solver, called repeatedly on one request's places *)
(* and matrix with varying constraints                                     *)
(***************************************************************************)
InitNN ==
    /\ InitFactory
    /\ InitService
    /\ places \in PlaceLists
    /\ distance_matrix \in Matrices(Len(places))
    /\ constraints = None
    /\ InitNNLocals
    /\ InitGADefault
    /\ InitGALocals

NextNN == NNCall \/ NNStart \/ NNLoopStep \/ NNReturn

SpecNN == InitNN /\ [][NextNN]_vars

(***************************************************************************)
(* The algorithm registry under any sequence of calls                      *)
(***************************************************************************)
InitFac ==
    /\ InitFactory
    /\ InitService
    /\ places = <<>>
    /\ distance_matrix = <<>>
    /\ constraints = None
    /\ InitNNLocals
    /\ InitGADefault
    /\ InitGALocals

NextFac == CreateAlgorithm \/ GetAvailableAlgorithms \/ RegisterAlgorithm

SpecFac == InitFac /\ [][NextFac]_vars

(***************************************************************************)
(* GeneticAlgorithm.solve as the factory's instance runs it                *)
(***************************************************************************)
InitGA ==
    /\ InitFactory
    /\ InitService
    /\ places \in PlaceLists
    /\ distance_matrix \in Matrices(Len(places))
    /\ constraints \in ConstraintSet
    /\ InitNNLocals
    /\ InitGADefault
    /\ gaPc = "start"
    /\ ga_start_idx = 0
    /\ return_to_start = TRUE
    /\ population = <<>>
    /\ fitness_scores = <<>>
    /\ new_population = <<>>
    /\ generation = 0
    /\ gaResult = NoResult
    /\ drawn = NoDraw

NextGA == GAValidate \/ GAResolveStart

SpecGA == InitGA /\ [][NextGA]_vars

(***************************************************************************)
(* The evolution of solve, lines 43-100, entered with the start index and  *)
(* the return flag that lines 39-40 are to bind                            *)
(***************************************************************************)
PopulationSizes == 0..MaxPopulation

EliteSizes == 0..MaxElite

GenerationCounts == 0..MaxGenerations

MutationRates == {0, DefaultMutationRate, 100}

InitEvo ==
    /\ InitFactory
    /\ InitService
    /\ places \in {pl \in PlaceLists : ValidateInput(pl)}
    /\ distance_matrix \in OneWayMatrices(Len(places))
    /\ constraints = None
    /\ InitNNLocals
    /\ population_size \in PopulationSizes
    /\ generations \in GenerationCounts
    /\ mutation_rate \in MutationRates
    /\ elite_size \in EliteSizes
    /\ gaPc = "populate"
    /\ ga_start_idx \in 0..(Len(places) - 1)
    /\ return_to_start \in BOOLEAN
    /\ population = <<>>
    /\ fitness_scores = <<>>
    /\ new_population = <<>>
    /\ generation = 0
    /\ gaResult = NoResult
    /\ drawn = NoDraw

NextEvo ==
    GACreatePopulation \/ GAFitnessPass \/ GAKeepElite \/ GAOffspring \/ GATrim \/ GAFinish

SpecEvo == InitEvo /\ [][NextEvo]_vars

(***************************************************************************)
(* _order_crossover on its own: any two parents that are permutations of   *)
(* 0..n-1 beginning with the start index, any cut points; drawn.cut keeps  *)
(* the cut points random.sample returned, <<>> when it was not called      *)
(***************************************************************************)
UnitMatrix(n) == [i \in 1..n |-> [j \in 1..n |-> IF i = j THEN 0 ELSE 1]]

InitOX ==
    /\ InitFactory
    /\ InitService
    /\ places \in {SubSeq(PlaceIds, 1, n) : n \in 1..MaxCities}
    /\ distance_matrix = UnitMatrix(Len(places))
    /\ constraints = None
    /\ InitNNLocals
    /\ InitGADefault
    /\ gaPc = "crossover"
    /\ ga_start_idx \in 0..(Len(places) - 1)
    /\ return_to_start = TRUE
    /\ population \in [1..2 -> InitialRoutes(Len(places), ga_start_idx)]
    /\ fitness_scores = <<>>
    /\ new_population = <<>>
    /\ generation = 0
    /\ gaResult = NoResult
    /\ drawn = NoDraw

NextOX == GACrossover

SpecOX == InitOX /\ [][NextOX]_vars

(***************************************************************************)
(* Either solver at work: a solver instance serves nearest-neighbour calls, *)
(* or runs GeneticAlgorithm.solve, or runs the evolution of lines 43-100   *)
(***************************************************************************)
InitSolve == InitNN \/ InitGA \/ InitEvo

NextSolve == (gaPc = "idle" /\ NextNN) \/ NextGA \/ NextEvo

SpecSolve == InitSolve /\ [][NextSolve]_vars

(***************************************************************************)
(* validate_places on its own                                              *)
(***************************************************************************)
InitSolversIdle ==
    /\ InitFactory
    /\ places = <<>>
    /\ distance_matrix = <<>>
    /\ constraints = None
    /\ InitNNLocals
    /\ InitGADefault
    /\ InitGALocals

\* places a caller may pass: well-formed ones (two with coordinates on the
\* edge of the ranges), and ones with a single defect each
WellFormedPlaces ==
    {Place("place_1", "Alpha", 0, 0), Place("place_2", "Beta", 90, 180),
     Place("place_3", "Gamma", -90, -180)}

DefectivePlaces ==
    {Place("", "Delta", 0, 0), Place(" ", "Delta", 0, 0),
     Place("place_4", "", 0, 0), Place("place_4", "  ", 0, 0),
     Place("place_4", "Delta", 91, 0), Place("place_4", "Delta", -91, 0),
     Place("place_4", "Delta", 0, 181), Place("place_4", "Delta", 0, -181)}

RECURSIVE ListsOver(_, _)
ListsOver(S, n) ==
    IF n = 0 THEN {<<>>}
    ELSE LET shorter == ListsOver(S, n - 1)
         IN shorter \cup {Append(l, x) : l \in {s \in shorter : Len(s) = n - 1}, x \in S}

\* lengths of the unlisted rest of a list: none, or enough to reach max_places
MoreChoices == {0, max_places - MaxPlaces, max_places - MaxPlaces + 1}

InitValPlaces ==
    /\ InitSolversIdle
    /\ \E listed \in ListsOver(WellFormedPlaces \cup DefectivePlaces, MaxPlaces) :
       \E more \in MoreChoices :
           request = Request(PlaceList(listed, more), "", None)
    /\ svcPc = "validate_places"
    /\ calls = <<>>
    /\ validation = NoValidation
    /\ svc_matrix = <<>>
    /\ svcResult = NoServiceResult

NextValPlaces == CallValidatePlaces

SpecValPlaces == InitValPlaces /\ [][NextValPlaces]_vars

(***************************************************************************)
(* validate_constraints on its own                                         *)
(***************************************************************************)
LocationItems(key) == {{}, {<<key, "place_1">>}, {<<key, "place_9">>}}

MaxDistanceItems == {{}} \cup {{<<"max_distance", v>>} : v \in MaxDistanceValues}

\* None, or a dict of the recognized keys and return_to_start
ServiceConstraintSet ==
    {None} \cup {Dict(s \cup e \cup m \cup r) :
                    s \in LocationItems("start_location"), e \in LocationItems("end_location"),
                    m \in MaxDistanceItems, r \in {{}, {<<"return_to_start", "True">>}}}

InitValConstraints ==
    /\ InitSolversIdle
    /\ \E listed \in ListsOver(WellFormedPlaces, MaxPlaces) :
       \E c \in ServiceConstraintSet :
           request = Request(PlaceList(listed, 0), "", c)
    /\ svcPc = "validate_constraints"
    /\ calls = <<>>
    /\ validation = NoValidation
    /\ svc_matrix = <<>>
    /\ svcResult = NoServiceResult

NextValConstraints == CallValidateConstraints

SpecValConstraints == InitValConstraints /\ [][NextValConstraints]_vars

(***************************************************************************)
(* get_distance_matrix on its own, in haversine mode                       *)
(***************************************************************************)
Latitudes == {-90, 0, 90}

Longitudes == {-180, -90, 0, 90, 180}

\* n places with distinct identifiers at the given points of the grid
GridPlaces(n, lat, lon) == [k \in 1..n |-> Place(PlaceIds[k], "Alpha", lat[k], lon[k])]

InitDist ==
    /\ InitSolversIdle
    /\ \E n \in 0..MaxPlaces :
       \E lat \in [1..n -> Latitudes] :
       \E lon \in [1..n -> Longitudes] :
           request = Request(PlaceList(GridPlaces(n, lat, lon), 0), "", None)
    /\ svcPc = "get_distance_matrix"
    /\ calls = <<>>
    /\ validation = NoValidation
    /\ svc_matrix = <<>>
    /\ svcResult = NoServiceResult

NextDist == CallGetDistanceMatrix

SpecDist == InitDist /\ [][NextDist]_vars

(***************************************************************************)
(* RouteService.calculate_route on one request, with the solver it runs    *)
(***************************************************************************)
RoutePlaces == WellFormedPlaces \cup {Place("place_4", "Delta", 91, 0)}

RouteConstraints ==
    {None, Dict({}), Dict({<<"start_location", "place_1">>}), Dict({<<"start_location", "place_9">>}),
     Dict({<<"max_distance", "0">>}), Dict({<<"return_to_start", "True">>}),
     Dict({<<"return_to_start", "False">>})}

InitRoute ==
    /\ InitSolversIdle
    /\ \E listed \in ListsOver(RoutePlaces, MaxPlaces) :
       \E algorithm_name \in AlgorithmNames :
       \E c \in RouteConstraints :
           request = Request(PlaceList(listed, 0), algorithm_name, c)
    /\ svcPc = "validate_inputs"
    /\ calls = <<>>
    /\ validation = NoValidation
    /\ svc_matrix = <<>>
    /\ svcResult = NoServiceResult

NextRoute ==
    \/ RSValidateInputs \/ RSGetDistanceMatrix \/ RSCreateAlgorithm \/ RSSolve
    \/ NNStart \/ NNLoopStep \/ NNReturn
    \/ GAValidate \/ GAResolveStart
    \/ RSEnhanceAndReturn

SpecRoute == InitRoute /\ [][NextRoute]_vars

(***************************************************************************)
(* _mutate on its own: any route that is a permutation of 0..n-1 beginning *)
(* with the start index                                                    *)
(***************************************************************************)
InitMut ==
    /\ InitFactory
    /\ InitService
    /\ places \in {SubSeq(PlaceIds, 1, n) : n \in 1..MaxCities}
    /\ distance_matrix = UnitMatrix(Len(places))
    /\ constraints = None
    /\ InitNNLocals
    /\ InitGADefault
    /\ gaPc = "mutate"
    /\ ga_start_idx \in 0..(Len(places) - 1)
    /\ return_to_start = TRUE
    /\ population \in [1..1 -> InitialRoutes(Len(places), ga_start_idx)]
    /\ fitness_scores = <<>>
    /\ new_population = <<>>
    /\ generation = 0
    /\ gaResult = NoResult
    /\ drawn = NoDraw

NextMut == GAMutate

SpecMut == InitMut /\ [][NextMut]_vars

(***************************************************************************)
(* _tournament_selection on its own: populations of 1 to tournament_size   *)
(* + 1 individuals with their fitness; drawn.tournament keeps the indices  *)
(* random.sample returned                                                  *)
(***************************************************************************)
InitTour ==
    /\ InitFactory
    /\ InitService
    /\ places \in {pl \in PlaceLists : ValidateInput(pl)}
    /\ distance_matrix \in OneWayMatrices(Len(places))
    /\ constraints = None
    /\ InitNNLocals
    /\ InitGADefault
    /\ gaPc = "select"
    /\ ga_start_idx = 0
    /\ return_to_start = TRUE
    /\ \E size \in 1..(tournament_size + 1) :
         population \in [1..size -> InitialRoutes(Len(places), ga_start_idx)]
    /\ fitness_scores = FitnessList(population, distance_matrix)
    /\ new_population = <<>>
    /\ generation = 0
    /\ gaResult = NoResult
    /\ drawn = NoDraw

NextTour == GATournament

SpecTour == InitTour /\ [][NextTour]_vars

(***************************************************************************)
(* Properties of the nearest-neighbour solver                              *)
(***************************************************************************)
\* the value of return_to_start a request asks for: true unless given as false
ReturnToStartRequested(c) == DictGet(c, "return_to_start", "True") = "True"

\* the place a request asks to start from
RequestedStart(pl, c) ==
    IF HasKey(c, "start_location") /\ DictGet(c, "start_location", "") \in Range(pl)
    THEN DictGet(c, "start_location", "")
    ELSE pl[1]

Occurrences(s, x) == Cardinality({k \in 1..Len(s) : s[k] = x})

\* sum of matrix[a][b] over the consecutive pairs (a, b) of a list of indices
RECURSIVE PathLength(_, _)
PathLength(matrix, route) ==
    IF Len(route) < 2 THEN 0
    ELSE PyAt(PyAt(matrix, route[1]), route[2]) + PathLength(matrix, Tail(route))

NNReturned == nnPc = "done" /\ nnResult.kind = "Route"

\* C1: for n >= 2 places the nearest-neighbour route holds every place
\* identifier exactly once, plus one trailing repeat of the start identifier
\* when return_to_start holds; its length is n or n+1.
C1_NNVisitsEveryPlaceOnce ==
    (nnPc = "done" /\ Len(places) >= 2) =>
        /\ nnResult.kind = "Route"
        /\ LET order == nnResult.places_order
               n == Len(places)
           IN /\ Len(order) = IF ReturnToStartRequested(constraints) THEN n + 1 ELSE n
              /\ \A id \in Range(places) : Occurrences(SubSeq(order, 1, n), id) = 1
              /\ Len(order) = n + 1 => order[n + 1] = order[1]

\* C3: the nearest-neighbour route begins with start_location when the
\* constraints name a place of the list, else with the first place.
C3_NNStartsAtStartLocation ==
    (NNReturned /\ Len(places) >= 2) =>
        nnResult.places_order[1] = RequestedStart(places, constraints)

\* C4: return_to_start defaults to true: unless the constraints give it as
\* false the route has n+1 entries, ends where it begins and total_distance
\* includes the closing leg; given as false the route stays open.
C4_NNReturnToStartDefaultsTrue ==
    (NNReturned /\ Len(places) >= 2) =>
        LET order == nnResult.places_order
            n == Len(places)
        IN IF ReturnToStartRequested(constraints)
           THEN /\ Len(order) = n + 1
                /\ order[n + 1] = order[1]
                /\ nnResult.total_distance =
                       PathLength(distance_matrix, SubSeq(route_order, 1, n))
                       + PyAt(PyAt(distance_matrix, route_order[n]), route_order[1])
           ELSE Len(order) = n

\* C5: with fewer than 2 places the nearest-neighbour solve raises ValueError
\* and returns no Route.
C5_NNFewerThanTwoPlacesRaises ==
    (nnPc = "done" /\ Len(places) < 2) => nnResult.kind = "ValueError"

\* C9: two nearest-neighbour calls with the same places, matrix and
\* constraints return the same places_order and total_distance, whatever
\* was called in between.
C9_NNDeterministic ==
    (nnPc = "done" /\ refCall.set /\ refCall.constraints = constraints) =>
        nnResult = refCall.result

\* a route returned for the constraints of the reference call, after calls in between
C9_Witness ==
    /\ nnPc = "done"
    /\ refCall.set
    /\ refCall.later = MaxCallsCounted
    /\ refCall.constraints = constraints
    /\ nnResult.kind = "Route"
    /\ Len(places) = MaxPlaces
    /\ \E i \in 1..MaxPlaces : \E j \in 1..MaxPlaces : \E k \in 1..MaxPlaces :
           j # k /\ i # j /\ i # k /\ distance_matrix[i][j] = distance_matrix[i][k]

\* the index in the place list of an identifier of a returned route
IndexOf(pl, id) == (CHOOSE k \in 1..Len(pl) : pl[k] = id) - 1

IndicesOf(pl, order) == [k \in 1..Len(order) |-> IndexOf(pl, order[k])]

\* C17: the total_distance of a nearest-neighbour Route is the sum of
\* distance_matrix[a][b] over the consecutive pairs (a, b) of the returned
\* places_order, the closing leg included when the route is closed, and
\* algorithm_used is 'nearest_neighbor'.
C17_NNTotalDistanceIsPathSum ==
    NNReturned =>
        /\ nnResult.total_distance =
               PathLength(distance_matrix, IndicesOf(places, nnResult.places_order))
        /\ nnResult.algorithm_used = "nearest_neighbor"

\* a closed route of three places whose closing leg is not zero
C17_Witness ==
    /\ NNReturned
    /\ Len(places) = 3
    /\ Len(nnResult.places_order) = 4
    /\ PyAt(PyAt(distance_matrix, current), start_idx) > 0
    /\ nnResult.total_distance > PyAt(PyAt(distance_matrix, current), start_idx)

\* the places the scan of _find_nearest_unvisited may choose from
Unvisited == {j \in 0..(Len(places) - 1) : ~PyAt(visited, j)}

\* C19: at every step of the nearest-neighbour loop the index chosen next is
\* unvisited, no unvisited place is nearer to the current one, and among the
\* nearest the chosen index is the lowest; while fewer than n places are
\* visited the helper returns neither -1 nor a visited index.
C19_NNChoosesNearestLowestIndex ==
    (nnPc = "loop" /\ nn_i < Len(places) - 1) =>
        LET nearest_idx == FindNearestUnvisited(current, distance_matrix, visited)
            row == PyAt(distance_matrix, current)
        IN /\ nearest_idx # -1
           /\ nearest_idx \in Unvisited
           /\ \A j \in Unvisited :
                  \/ PyAt(row, nearest_idx) < PyAt(row, j)
                  \/ PyAt(row, nearest_idx) = PyAt(row, j) /\ nearest_idx <= j

\* a step was taken where two unvisited places were equally near, and the
\* lower index was chosen
C19_Witness ==
    /\ nnPc = "loop"
    /\ nn_i = 1
    /\ Len(places) = 3
    /\ route_order = <<0, 1>>
    /\ distance_matrix[1][2] = distance_matrix[1][3]
    /\ distance_matrix[1][2] > 0

(***************************************************************************)
(* Properties of the algorithm registry                                    *)
(***************************************************************************)
\* C7: create_algorithm with a name that is not registered raises ValueError
\* listing the registered names, returns no instance, and leaves the registry
\* unchanged.
C7_UnknownAlgorithmRaises ==
    [][(facResult'.op = "create" /\ ~DictHas(algorithms, facResult'.name)) =>
          /\ facResult'.kind = "ValueError"
          /\ facResult'.names = DictKeys(algorithms)
          /\ algorithms' = algorithms]_vars

\* an unknown name was looked up after a successful registration
C7_Witness ==
    /\ facResult.op = "create"
    /\ ~DictHas(algorithms, facResult.name)
    /\ facResult.kind = "ValueError"
    /\ Len(facResult.names) = 3

RegisteredNames == {name \in AlgorithmNames : regLog[name] # ""}

C2_GAVisitsEveryPlaceOnce ==
    (gaPc = "done" /\ Len(places) >= 2) =>
        /\ gaResult.kind = "Route"
        /\ LET order == gaResult.places_order
               n == Len(places)
           IN /\ Len(order) = IF ReturnToStartRequested(constraints) THEN n + 1 ELSE n
              /\ \A id \in Range(places) : Occurrences(SubSeq(order, 1, n), id) = 1
              /\ Len(order) = n + 1 => order[n + 1] = order[1]

\* C6: with fewer than 2 places GeneticAlgorithm.solve raises ValueError before
\* any population exists; a call ends with a Route that holds all places or
\* with an exception and no route, and hands out nothing before it ends.
C6_GANoPartialResult ==
    /\ gaPc # "done" => gaResult = NoResult
    /\ gaPc = "done" =>
        /\ Len(places) < 2 => (gaResult.kind = "ValueError" /\ population = <<>>)
        /\ IF gaResult.kind = "Route"
           THEN Range(places) \subseteq Range(gaResult.places_order)
           ELSE gaResult.kind # "none" /\ gaResult.places_order = <<>>

\* a call with one place ended in ValueError
C6_Witness ==
    /\ gaPc = "done"
    /\ Len(places) = 1
    /\ gaResult.kind = "ValueError"
    /\ population = <<>>

\* the largest fitness of a list of scores
BestFitness(scores) == PyAt(scores, MaxByScore(RangeList(Len(scores)), scores))

\* a generation has been completed: fitness_scores are those of the population
\* it started from, population is the one it produced
GenerationCompleted == gaPc = "generation" /\ generation >= 1 /\ population # <<>>

IsIndividual(route) ==
    /\ Len(route) = Len(places)
    /\ route[1] = ga_start_idx
    /\ Range(route) = 0..(Len(places) - 1)

C16_GAReportsStartAndReturn ==
    (gaPc = "done" /\ Len(places) >= 2) =>
        /\ gaResult.kind = "Route"
        /\ LET order == gaResult.places_order
               n == Len(places)
           IN /\ order[1] = RequestedStart(places, constraints)
              /\ IF ReturnToStartRequested(constraints)
                 THEN Len(order) = n + 1 /\ order[n + 1] = order[1]
                 ELSE Len(order) = n

\* C11: for any two parents that are permutations of 0..n-1 beginning with
\* start_idx and any cut points, _order_crossover returns two children that
\* begin with start_idx and are permutations of 0..n-1: no city twice, none
\* missing, no empty slot left.
C11_CrossoverChildrenArePermutations ==
    gaPc = "crossed" =>
        /\ gaResult = NoResult
        /\ Len(new_population) = 2
        /\ \A k \in 1..2 :
              /\ IsIndividual(new_population[k])
              /\ NoCity \notin Range(new_population[k])
              /\ \A city \in 0..(Len(places) - 1) : Occurrences(new_population[k], city) = 1

\* four places, different parents, and a first child that is neither parent
C11_Witness ==
    /\ gaPc = "crossed"
    /\ Len(places) = 4
    /\ population[1] # population[2]
    /\ Len(new_population) = 2
    /\ new_population[1] \notin {population[1], population[2]}
    /\ new_population[2] \notin {population[1], population[2]}

NonBlank(s) == s \notin {"", " ", "  "}

\* what the claim requires of a list of places
PlacesAreValid(pl) ==
    /\ LenPlaces(pl) >= 2
    /\ LenPlaces(pl) <= 100
    /\ \A j \in 1..Len(pl.listed) : \A k \in 1..Len(pl.listed) :
           j # k => pl.listed[j].id # pl.listed[k].id
    /\ \A k \in 1..Len(pl.listed) :
           /\ NonBlank(pl.listed[k].id)
           /\ NonBlank(pl.listed[k].name)
           /\ pl.listed[k].latitude \in -90..90
           /\ pl.listed[k].longitude \in -180..180

\* C14: validate_places reports valid exactly when the list has between 2
\* and 100 places, the identifiers are pairwise distinct, every identifier
\* and name is non-blank, every latitude lies in [-90, 90] and every
\* longitude in [-180, 180]; valid is true if and only if errors is empty.
C14_ValidatePlacesExact ==
    (svcPc = "returned" /\ calls = <<"validate_places">>) =>
        /\ validation.valid <=> PlacesAreValid(request.places)
        /\ validation.valid <=> validation.errors = <<>>

\* a list of exactly 100 places, some on the edge of the coordinate ranges,
\* was found valid
C14_Witness ==
    /\ svcPc = "returned"
    /\ calls = <<"validate_places">>
    /\ validation.valid
    /\ LenPlaces(request.places) = 100
    /\ \E k \in 1..Len(request.places.listed) : request.places.listed[k].latitude = 90

\* a max_distance that is a number greater than zero
IsPositiveNumber(v) == v = "10"

NamesNoPlace(c, key, pl) ==
    HasKey(c, key) /\ \A k \in 1..Len(pl.listed) : pl.listed[k].id # DictGet(c, key, "")

\* C15: validate_constraints reports valid == false whenever start_location
\* or end_location is present and names no place of the list, or
\* max_distance is present and is not a positive number; it reports valid ==
\* true for absent or empty constraints and whenever every recognized key
\* that is present passes its check.
C15_ValidateConstraints ==
    (svcPc = "returned" /\ calls = <<"validate_constraints">>) =>
        LET c == request.constraints
            pl == request.places
            fails == \/ NamesNoPlace(c, "start_location", pl)
                     \/ NamesNoPlace(c, "end_location", pl)
                     \/ HasKey(c, "max_distance") /\ ~IsPositiveNumber(DictGet(c, "max_distance", ""))
        IN /\ fails => ~validation.valid
           /\ (c.none \/ c.items = {}) => validation.valid
           /\ ~fails => validation.valid

(***************************************************************************)
(* Properties of the distance service                                      *)
(***************************************************************************)
\* the point of the unit sphere at a latitude and longitude
UnitVector(place) ==
    <<Cos(place.latitude) * Cos(place.longitude),
      Cos(place.latitude) * Sin(place.longitude),
      Sin(place.latitude)>>

\* the angle between two places in quarter turns, from the scalar product
\* of their unit vectors (1, 0, -1 for 0, 90, 180 degrees)
QuarterTurnsBetween(p, q) ==
    1 - (UnitVector(p)[1] * UnitVector(q)[1] + UnitVector(p)[2] * UnitVector(q)[2]
         + UnitVector(p)[3] * UnitVector(q)[3])

\* C12: for any list of n places the matrix get_distance_matrix returns in
\* haversine mode has n rows of n entries, a zero diagonal, is symmetric, has
\* no negative entry, and its entry [i][j] is the great-circle distance
\* between the i-th and the j-th place of the list.
C12_DistanceMatrixShape ==
    (svcPc = "returned" /\ calls = <<"get_distance_matrix">>) =>
        LET listed == request.places.listed
            n == Len(listed)
        IN /\ svcResult.kind = "matrix"
           /\ Len(svc_matrix) = n
           /\ \A i \in 1..n :
                 /\ Len(svc_matrix[i]) = n
                 /\ svc_matrix[i][i] = 0
                 /\ \A j \in 1..n :
                       /\ svc_matrix[i][j] = svc_matrix[j][i]
                       /\ svc_matrix[i][j] >= 0
                       /\ svc_matrix[i][j] = QuarterTurnsBetween(listed[i], listed[j])

\* three places at three different distances from each other
C12_Witness ==
    /\ svcPc = "returned"
    /\ calls = <<"get_distance_matrix">>
    /\ Len(svc_matrix) = 3
    /\ svc_matrix[1][2] = 1
    /\ svc_matrix[1][3] = 2
    /\ svc_matrix[2][3] = 1

(***************************************************************************)
(* Properties of the route service                                         *)
(***************************************************************************)
\* the three validations of a request all pass
RequestIsValid ==
    /\ ValidatePlaces(request.places).valid
    /\ ValidateAlgorithm(algorithms, request.algorithm_name).valid
    /\ ValidateConstraints(request.constraints, request.places).valid

Called(name) == \E k \in 1..Len(calls) : calls[k] = name

\* C13: in calculate_route the validation of places, algorithm and
\* constraints is complete before the distance matrix is built and before a
\* solver is created or invoked; if one of the three validations fails,
\* calculate_route raises ValueError and neither the matrix builder nor any
\* solve is ever called for the request.
C13_ValidationComesFirst ==
    /\ (Called("get_distance_matrix") \/ Called("create_algorithm") \/ Called("solve")
        \/ svc_matrix # <<>> \/ nnPc # "idle" \/ gaPc # "idle") =>
           /\ Len(calls) >= 3
           /\ SubSeq(calls, 1, 3) = <<"validate_places", "validate_algorithm", "validate_constraints">>
           /\ RequestIsValid
    /\ ~RequestIsValid =>
           /\ ~Called("get_distance_matrix") /\ ~Called("create_algorithm") /\ ~Called("solve")
           /\ svc_matrix = <<>> /\ nnPc = "idle" /\ gaPc = "idle"
           /\ svcPc = "done" => svcResult.kind = "ValueError"

\* a request with valid places and a registered algorithm whose constraints
\* name an unknown start location was turned down
C13_Witness ==
    /\ svcPc = "done"
    /\ svcResult.kind = "ValueError"
    /\ calls = <<"validate_places", "validate_algorithm", "validate_constraints">>
    /\ Len(request.places.listed) = 3
    /\ HasKey(request.constraints, "start_location")

(***************************************************************************)
(* Properties of the generation loop, lines 46-100                         *)
(***************************************************************************)
Smaller(a, b) == IF a < b THEN a ELSE b

\* the number of elites a generation carries over
EliteCount == Smaller(elite_size, population_size)

ClosedLoopLength(route) == PathLength(distance_matrix, Append(route, route[1]))

\* length of the open path of a route
OpenPathLength(route) == PathLength(distance_matrix, route)

\* indices names the k best individuals of pop, best first
RanksBest(indices, pop) ==
    /\ \A k \in 1..(Len(indices) - 1) :
           ClosedLoopLength(PyAt(pop, indices[k])) <= ClosedLoopLength(PyAt(pop, indices[k + 1]))
    /\ \A j \in 0..(Len(pop) - 1) : \A k \in 1..Len(indices) :
           j \notin Range(indices) =>
               ClosedLoopLength(PyAt(pop, indices[k])) <= ClosedLoopLength(PyAt(pop, j))

ReportedIndividual ==
    SubSeq(IndicesOf(places, gaResult.places_order), 1, Len(places))

GAReturned == gaPc = "done" /\ gaResult.kind = "Route"

ScoresOf(pop) == [k \in 1..Len(pop) |-> <<1, ClosedLoopLength(pop[k]) + 1>>]

Individual(route) == SubSeq(route, 1, Len(places))

Crossed == gaPc = "crossed"

\* C26: for parents with fewer than 2 non-start cities (n <= 2)
\* _order_crossover draws no cut points and returns children equal to
\* parent1 and parent2.
C26_FewCitiesAreNotCrossed ==
    (Crossed /\ Len(places) <= 2) =>
        /\ drawn.cut = <<>>
        /\ gaResult = NoResult
        /\ new_population = <<population[1], population[2]>>

\* _order_crossover returned for parents of two places
C26_Witness ==
    /\ Crossed
    /\ Len(places) = 2
    /\ Len(new_population) = 2
    /\ drawn.cut = <<>>

\* the cities of a route after its start
CitiesOf(route) == SelectSeq(route, LAMBDA city : city # ga_start_idx)

\* the positions of a child outside the window [start, end), left to right
OutsideWindow(cities, start, end) ==
    SubSeq(cities, 1, start) \o SubSeq(cities, end + 1, Len(cities))

\* the cities of parent that are not in the window copied from own
RemainingOf(parent, own, start, end) ==
    SelectSeq(parent, LAMBDA city : city \notin Range(SubSeq(own, start + 1, end)))

\* child has the window of own and, outside it, the remaining cities of other
FilledInOrder(child, own, other, start, end) ==
    /\ Len(child) = Len(own)
    /\ SubSeq(child, start + 1, end) = SubSeq(own, start + 1, end)
    /\ OutsideWindow(child, start, end) = RemainingOf(other, own, start, end)

\* C30: for parents that are permutations of the same cities and cut points
\* start < end, each child keeps its own parent's cities in [start, end) and
\* has the positions outside filled left to right with the other parent's
\* cities, in that parent's order, skipping those already in the child;
\* _fill_remaining_positions never reads past the end of the parent.
C30_CrossoverFillsInParentOrder ==
    (Crossed /\ drawn.cut # <<>>) =>
        LET start == drawn.cut[1]
            end == drawn.cut[2]
            p1_cities == CitiesOf(population[1])
            p2_cities == CitiesOf(population[2])
        IN /\ start < end
           /\ gaResult = NoResult
           /\ Len(new_population) = 2
           /\ new_population[1][1] = ga_start_idx
           /\ new_population[2][1] = ga_start_idx
           /\ FilledInOrder(Tail(new_population[1]), p1_cities, p2_cities, start, end)
           /\ FilledInOrder(Tail(new_population[2]), p2_cities, p1_cities, start, end)

\* three cities, the middle one kept, the parents in opposite orders: the
\* cities on either side of the window come from the other parent
C30_Witness ==
    /\ Crossed
    /\ Len(places) = 4
    /\ drawn.cut = <<1, 2>>
    /\ new_population # <<>>
    /\ new_population[1] # population[1]
    /\ new_population[1] # population[2]

(***************************************************************************)
(* Properties of _mutate, lines 185-194                                    *)
(***************************************************************************)
\* the positions, start excluded, at which two routes differ
Differing(route, other) == {k \in 2..Len(route) : route[k] # other[k]}

\* C24: _mutate on a route that begins with start_idx returns a route that
\* begins with start_idx and holds the same cities as often; with at least 2
\* non-start cities it differs from the input in exactly two positions after
\* the first, whose cities are exchanged, with fewer it equals the input;
\* the route passed in is left as it was.
C24_MutateSwapsTwoCities ==
    [][(gaPc = "mutate" /\ gaPc' = "mutated") =>
          LET route == population[1]
              mutated == new_population'[1]
          IN /\ population' = population
             /\ Len(mutated) = Len(route)
             /\ mutated[1] = ga_start_idx
             /\ \A city \in 0..(Len(places) - 1) :
                    Occurrences(mutated, city) = Occurrences(route, city)
             /\ IF Len(route) - 1 >= 2
                THEN /\ Cardinality(Differing(route, mutated)) = 2
                     /\ \E a \in Differing(route, mutated) :
                        \E b \in Differing(route, mutated) :
                            a # b /\ mutated[a] = route[b] /\ mutated[b] = route[a]
                ELSE mutated = route]_vars

\* a route of four places came back from _mutate with its last two cities
\* exchanged
C24_Witness ==
    /\ gaPc = "mutated"
    /\ Len(places) = 4
    /\ new_population[1][2] = population[1][2]
    /\ new_population[1][3] = population[1][4]
    /\ new_population[1][4] = population[1][3]

(***************************************************************************)
(* Properties of _tournament_selection, lines 136-142                      *)
(***************************************************************************)
\* C25: _tournament_selection samples min(3, len(population)) pairwise
\* distinct indices of the population and returns the sampled individual of
\* highest fitness: no sampled individual has a higher fitness than the
\* winner, the winner is an individual of the population, and the
\* population is left as it was.
C25_TournamentReturnsBestSampled ==
    [][(gaPc = "select" /\ gaPc' = "selected") =>
          LET smp == drawn'.tournament
              winner == new_population'[1]
          IN /\ Len(smp) = Smaller(3, Len(population))
             /\ \A a \in 1..Len(smp) : smp[a] \in 0..(Len(population) - 1)
             /\ \A a \in 1..Len(smp) : \A b \in 1..Len(smp) : a # b => smp[a] # smp[b]
             /\ \E w \in Range(smp) :
                    /\ winner = PyAt(population, w)
                    /\ \A j \in Range(smp) :
                           /\ ~FitnessGreater(PyAt(fitness_scores, j), PyAt(fitness_scores, w))
                           /\ ClosedLoopLength(PyAt(population, w)) <=
                                  ClosedLoopLength(PyAt(population, j))
             /\ winner \in Range(population)
             /\ population' = population]_vars

\* three of four individuals were drawn, the best of the three was drawn
\* last and won, and the individual left out is none of the three
C25_Witness ==
    /\ gaPc = "selected"
    /\ Len(population) = 4
    /\ Len(drawn.tournament) = 3
    /\ new_population[1] = PyAt(population, drawn.tournament[3])
    /\ new_population[1] # PyAt(population, drawn.tournament[1])
    /\ FitnessGreater(PyAt(fitness_scores, drawn.tournament[3]),
                      PyAt(fitness_scores, drawn.tournament[1]))

(***************************************************************************)
(* Properties of GeneticAlgorithm.solve as a whole                         *)
(***************************************************************************)
\* C27: for every valid input and every configuration with population_size
\* >= 1 and generations >= 0, solve ends having run the generation loop
\* exactly generations times and returns a Route.
C27_SolveEndsWithARoute ==
    (gaPc = "done" /\ ValidateInput(places) /\ population_size >= 1 /\ generations >= 0) =>
        /\ generation = generations
        /\ gaResult.kind = "Route"
        /\ gaResult.algorithm_used = GAName
=============================================================================
